---------------------------- MODULE Spec2Model ----------------------------
(***************************************************************************)
(* The pipeline state store of playlet: class MetadataCache and the        *)
(* DynamoDB table it writes.  Callers invoke the four public operations    *)
(* concurrently; each operation builds one command (reading the wall clock *)
(* for its timestamps), sends it, and turns the answer into its result.    *)
(***************************************************************************)
EXTENDS Integers, Sequences, FiniteSets, TLC

(* ------------------------------ bounds --------------------------------- *)
\* total number of operation invocations in one behaviour
MaxCalls == 3
\* last instant of the wall clock (the clock starts at 0)
MaxClock == 1

Callers == {"c1", "c2"}
Users   == {"u1", "u2"}
Assets  == {"a1"}
Keys    == Users \X Assets

(* --------------------------- enumerations ------------------------------ *)
VALIDATION_BASIC   == "validation.basic"
VALIDATION_STREAM  == "validation.stream"
METADATA_TECHNICAL == "metadata.technical"
METADATA_QUALITY   == "metadata.quality"
METADATA_CONTENT   == "metadata.content"

MetadataPath ==
    {VALIDATION_BASIC, VALIDATION_STREAM, METADATA_TECHNICAL,
     METADATA_QUALITY, METADATA_CONTENT}

ProcessingStage ==
    {"upload", "validation", "metadata", "gopCreation", "transcoding",
     "completion", "distribution"}

\* values a caller can pass at run time although the enums do not hold them
UnknownPaths  == {"metadata.audio"}
UnknownStages == {"archival", "updatedAt"}

(* ------------------------- JSON-shaped values -------------------------- *)
JNull    == [t |-> "null"]
JBool(b) == [t |-> "boolean", b |-> b]
JNum(n)  == [t |-> "number", n |-> n]
JStr(s)  == [t |-> "string", s |-> s]
JObj(f)  == [t |-> "object", f |-> f]
JArr(a)  == [t |-> "array", a |-> a]
JUndef   == [t |-> "undefined"]

EmptyMap == [k \in {} |-> JNull]

\* the data the callers of the model hand to updateMetadata
DataTechnical == JObj([codec |-> JStr("h264"), durationSec |-> JNum(12)])
DataQuality   == JObj([score |-> JStr("N/A"), hdr |-> JBool(FALSE),
                       streams |-> JObj(EmptyMap)])
DataInputs    == {DataTechnical, DataQuality, JNull}

\* the values the encoder is exercised with: scalars, structures of scalars,
\* and data that hold them as fields, next to data that are no objects
JsonScalars ==
    {JNull, JUndef, JBool(TRUE), JBool(FALSE), JNum(0), JNum(12), JNum(-3),
     JStr("N/A"), JStr("h264"), JStr("")}
JsonStructures ==
    {JObj(EmptyMap), JArr(<<>>), JArr(<<JNum(12), JStr("N/A")>>),
     JObj([x |-> JObj([y |-> JStr("N/A"), z |-> JNum(-3)])])}
    \cup {JObj([x |-> v]) : v \in JsonScalars}
JsonFields == JsonScalars \cup JsonStructures
JsonInputs ==
    {JObj([a |-> v]) : v \in JsonFields}
    \cup {JObj([a |-> v, b |-> w]) :
             v \in {JStr("N/A"), JNum(12)}, w \in {JBool(TRUE), JObj(EmptyMap)}}
    \cup {JObj(EmptyMap), JNull, JUndef, JBool(TRUE), JNum(12), JStr("h264"),
          JArr(<<>>), JArr(<<JNum(12), JNull>>)}

(* ------------------------- Attribute Encoder --------------------------- *)
DigitStr == <<"0", "1", "2", "3", "4", "5", "6", "7", "8", "9">>

RECURSIVE NatToString(_)
NatToString(n) ==
    IF n < 10 THEN DigitStr[n + 1]
    ELSE NatToString(n \div 10) \o DigitStr[(n % 10) + 1]

\* faulty variant: the sign of the number is lost
NumToStringUnsigned(n) == IF n < 0 THEN NatToString(0 - n) ELSE NatToString(n)

\* Number.prototype.toString on an integer
NumToString(n) == IF n < 0 THEN "-" \o NatToString(0 - n) ELSE NatToString(n)

\* Object.entries(data) throws a TypeError on null and undefined
EntriesThrows(data) == data.t \in {"null", "undefined"}

\* the characters of the strings of the model
CharsOf(str) ==
    CASE str = "h264" -> <<"h", "2", "6", "4">>
      [] str = "N/A"  -> <<"N", "/", "A">>
      [] OTHER        -> <<>>

\* the own enumerable properties of an array or a string: its indices
Indexed(seq) ==
    [key \in {NatToString(i - 1) : i \in DOMAIN seq} |->
        seq[CHOOSE i \in DOMAIN seq : NatToString(i - 1) = key]]

\* Object.entries(data) as a map from key to value: the fields of an object,
\* the elements of an array, the characters of a string, nothing for a
\* number or a boolean
ObjectEntries(data) ==
    IF data.t = "object" THEN data.f
    ELSE IF data.t = "array" THEN Indexed(data.a)
    ELSE IF data.t = "string"
         THEN Indexed([i \in DOMAIN CharsOf(data.s) |-> JStr(CharsOf(data.s)[i])])
    ELSE EmptyMap

\* faulty variant: a field that holds an empty structure is left out
RECURSIVE convertToMapAttributeDropsEmpty(_)
convertToMapAttributeDropsEmpty(data) ==
    LET entries == ObjectEntries(data)
        kept    == {key \in DOMAIN entries :
                       ~ /\ entries[key].t \in {"object", "array"}
                         /\ DOMAIN ObjectEntries(entries[key]) = {}}
        enc(value) ==
            IF value.t \in {"null", "undefined"} \/ value = JStr("N/A")
                THEN [NULL |-> TRUE]
            ELSE IF value.t = "boolean" THEN [BOOL |-> value.b]
            ELSE IF value.t = "number" THEN [N |-> NumToString(value.n)]
            ELSE IF value.t \in {"object", "array"}
                THEN [M |-> convertToMapAttributeDropsEmpty(value)]
            ELSE [S |-> value.s]
    IN  [key \in kept |-> enc(entries[key])]

RECURSIVE convertToMapAttribute(_)
convertToMapAttribute(data) ==
    LET entries == ObjectEntries(data)
        enc(value) ==
            IF value.t \in {"null", "undefined"} \/ value = JStr("N/A")
                THEN [NULL |-> TRUE]
            ELSE IF value.t = "boolean" THEN [BOOL |-> value.b]
            ELSE IF value.t = "number" THEN [N |-> NumToString(value.n)]
            ELSE IF value.t \in {"object", "array"}
                THEN [M |-> convertToMapAttribute(value)]
            ELSE [S |-> value.s]
    IN  [key \in DOMAIN entries |-> enc(entries[key])]


(* ------------------------------ wall clock ----------------------------- *)
\* Date.prototype.toISOString: a fixed-width UTC text whose only varying part
\* within the model's clock range is the millisecond field, kept as its three
\* digits; such texts order character by character.
toISOString(t) == <<(t \div 100) % 10, (t \div 10) % 10, t % 10>>

\* order of two texts of the same length (string comparison)
RECURSIVE StrLeq(_, _)
StrLeq(x, y) ==
    IF x = <<>> THEN TRUE
    ELSE IF Head(x) # Head(y) THEN Head(x) < Head(y)
    ELSE StrLeq(Tail(x), Tail(y))

(* ------------------------- the DynamoDB table -------------------------- *)
\* A table is a function from the keys of its items to the items; an item is
\* a map from attribute names to tagged attribute values.

IsMap(av) == DOMAIN av = {"M"}

MapPut(m, k, v) == [x \in (DOMAIN m) \cup {k} |-> IF x = k THEN v ELSE m[x]]

\* every element of a document path but the last must be an existing map
RECURSIVE ValidPath(_, _)
ValidPath(m, path) ==
    IF Len(path) = 1 THEN TRUE
    ELSE /\ Head(path) \in DOMAIN m
         /\ IsMap(m[Head(path)])
         /\ ValidPath(m[Head(path)].M, Tail(path))

RECURSIVE SetPath(_, _, _)
SetPath(m, path, v) ==
    IF Len(path) = 1 THEN MapPut(m, Head(path), v)
    ELSE [m EXCEPT ![Head(path)] = [M |-> SetPath(@.M, Tail(path), v)]]

Absent == [absent |-> TRUE]

\* the attribute value under a document path, Absent when there is none
RECURSIVE GetPath(_, _)
GetPath(m, path) ==
    IF Head(path) \notin DOMAIN m THEN Absent
    ELSE IF Len(path) = 1 THEN m[Head(path)]
    ELSE IF ~IsMap(m[Head(path)]) THEN Absent
    ELSE GetPath(m[Head(path)].M, Tail(path))

IsPrefix(p, q) == Len(p) <= Len(q) /\ SubSeq(q, 1, Len(p)) = p
Overlap(p, q)  == IsPrefix(p, q) \/ IsPrefix(q, p)

RECURSIVE ApplySets(_, _)
ApplySets(m, sets) ==
    IF sets = <<>> THEN m
    ELSE ApplySets(SetPath(m, Head(sets).path, Head(sets).value), Tail(sets))

KeyItem(key) == [userId |-> [S |-> key[1]], assetId |-> [S |-> key[2]]]

NotExists == "attribute_not_exists(userId) AND attribute_not_exists(assetId)"

\* PutItem replaces the item under the key, unless the command carries a
\* condition that fails.  Every stored item has both key attributes, so
\* NotExists holds exactly when the table has no item under the key.
PutItem(table, cmd) ==
    IF cmd.ConditionExpression = NotExists /\ cmd.Key \in DOMAIN table
    THEN [db |-> table, fault |-> "ConditionalCheckFailedException", status |-> 400]
    ELSE [db |-> [k \in (DOMAIN table) \cup {cmd.Key} |->
                     IF k = cmd.Key THEN cmd.Item ELSE table[k]],
          fault |-> "none", status |-> 200]

\* UpdateItem with a SET expression: the placeholders are resolved, the paths
\* are checked against the item as it is (an absent item counts as one that
\* has its key attributes only), and all SET actions are applied at once.
UpdateItem(table, cmd) ==
    LET names   == cmd.ExpressionAttributeNames
        values  == cmd.ExpressionAttributeValues
        resolve(tok) == IF tok \in DOMAIN names THEN names[tok] ELSE tok
        sets    == [i \in DOMAIN cmd.UpdateExpression |->
                      [path  |-> [j \in DOMAIN cmd.UpdateExpression[i].path |->
                                     resolve(cmd.UpdateExpression[i].path[j])],
                       value |-> values[cmd.UpdateExpression[i].value]]]
        used    == UNION {{cmd.UpdateExpression[i].path[j] :
                              j \in DOMAIN cmd.UpdateExpression[i].path} :
                          i \in DOMAIN cmd.UpdateExpression}
        item    == IF cmd.Key \in DOMAIN table THEN table[cmd.Key]
                   ELSE KeyItem(cmd.Key)
        invalid == \/ \E tok \in DOMAIN names : tok \notin used
                   \/ \E i, j \in DOMAIN sets :
                         i # j /\ Overlap(sets[i].path, sets[j].path)
                   \/ \E i \in DOMAIN sets : ~ValidPath(item, sets[i].path)
    IN  IF invalid
        THEN [db |-> table, fault |-> "ValidationException", status |-> 400]
        ELSE [db |-> [k \in (DOMAIN table) \cup {cmd.Key} |->
                         IF k = cmd.Key THEN ApplySets(item, sets) ELSE table[k]],
              fault |-> "none", status |-> 200]

\* DynamoDBClient.send as far as the table is concerned
Send(table, cmd) ==
    IF cmd.cmd = "PutItem" THEN PutItem(table, cmd) ELSE UpdateItem(table, cmd)

(* ---------------------- commands of MetadataCache ---------------------- *)
NoNames == [k \in {} |-> ""]

\* faulty variant: the item is put without the two leaves under validation
NewItemFlatValidation(userId, assetId, t1, t2) ==
    [userId    |-> [S |-> userId],
     assetId   |-> [S |-> assetId],
     createdAt |-> [S |-> toISOString(t1)],
     metadata  |-> [M |->
        [validation |-> [M |-> EmptyMap],
         technical  |-> [M |-> EmptyMap],
         quality    |-> [M |-> EmptyMap],
         content    |-> [M |-> EmptyMap]]],
     progress  |-> [M |->
        [upload             |-> [BOOL |-> FALSE],
         validation         |-> [BOOL |-> FALSE],
         metadata           |-> [BOOL |-> FALSE],
         gopCreation        |-> [BOOL |-> FALSE],
         transcoding        |-> [BOOL |-> FALSE],
         completion         |-> [BOOL |-> FALSE],
         distribution       |-> [BOOL |-> FALSE],
         updatedAt          |-> [S |-> toISOString(t2)],
         hasCriticalFailure |-> [BOOL |-> FALSE]]]]

\* the item InitializeRecord puts; t1 and t2 are its two readings of the clock
NewItem(userId, assetId, t1, t2) ==
    [userId    |-> [S |-> userId],
     assetId   |-> [S |-> assetId],
     createdAt |-> [S |-> toISOString(t1)],
     metadata  |-> [M |->
        [validation |-> [M |-> [basic  |-> [M |-> EmptyMap],
                                stream |-> [M |-> EmptyMap]]],
         technical  |-> [M |-> EmptyMap],
         quality    |-> [M |-> EmptyMap],
         content    |-> [M |-> EmptyMap]]],
     progress  |-> [M |->
        [upload             |-> [BOOL |-> FALSE],
         validation         |-> [BOOL |-> FALSE],
         metadata           |-> [BOOL |-> FALSE],
         gopCreation        |-> [BOOL |-> FALSE],
         transcoding        |-> [BOOL |-> FALSE],
         completion         |-> [BOOL |-> FALSE],
         distribution       |-> [BOOL |-> FALSE],
         updatedAt          |-> [S |-> toISOString(t2)],
         hasCriticalFailure |-> [BOOL |-> FALSE]]]]

\* faulty variant: the two parts of the key are swapped
InitializeRecordCommandSwappedKey(userId, assetId, t1, t2) ==
    [cmd  |-> "PutItem",
     Key  |-> <<assetId, userId>>,
     Item |-> NewItem(assetId, userId, t1, t2),
     ConditionExpression |-> NotExists]

\* faulty variant: the put carries no condition
InitializeRecordCommandUnconditional(userId, assetId, t1, t2) ==
    [cmd  |-> "PutItem",
     Key  |-> <<userId, assetId>>,
     Item |-> NewItem(userId, assetId, t1, t2),
     ConditionExpression |-> ""]

InitializeRecordCommand(userId, assetId, t1, t2) ==
    [cmd  |-> "PutItem",
     Key  |-> <<userId, assetId>>,
     Item |-> NewItem(userId, assetId, t1, t2),
     ConditionExpression |-> NotExists]

\* faulty variant: validation.basic is addressed by the path of its parent
UPDATE_PATHS_ParentOfBasic ==
    (VALIDATION_BASIC   :> <<"metadata", "validation">>) @@
    (VALIDATION_STREAM  :> <<"metadata", "validation", "stream">>) @@
    (METADATA_TECHNICAL :> <<"metadata", "technical">>) @@
    (METADATA_QUALITY   :> <<"metadata", "quality">>) @@
    (METADATA_CONTENT   :> <<"metadata", "content">>)

UPDATE_PATHS ==
    (VALIDATION_BASIC   :> <<"metadata", "validation", "basic">>) @@
    (VALIDATION_STREAM  :> <<"metadata", "validation", "stream">>) @@
    (METADATA_TECHNICAL :> <<"metadata", "technical">>) @@
    (METADATA_QUALITY   :> <<"metadata", "quality">>) @@
    (METADATA_CONTENT   :> <<"metadata", "content">>)

\* createUpdateCommand throws a TypeError when the path is no key of
\* UPDATE_PATHS (reduce of undefined) and when Object.entries rejects the data
createUpdateCommandThrows(path, data) ==
    path \notin DOMAIN UPDATE_PATHS \/ EntriesThrows(data)

\* faulty variant: the update sets the whole metadata attribute
createUpdateCommandWholeMetadata(path, data) ==
    LET pathParts == UPDATE_PATHS[path]
        parts     == {pathParts[1]}
    IN  [UpdateExpression |->
            <<[path |-> <<"#" \o pathParts[1]>>, value |-> ":data"]>>,
         ExpressionAttributeNames |->
            [tok \in {"#" \o p : p \in parts} |->
                CHOOSE p \in parts : "#" \o p = tok],
         ExpressionAttributeValues |->
            (":data" :> [M |-> convertToMapAttribute(data)])]

createUpdateCommand(path, data) ==
    LET pathParts == UPDATE_PATHS[path]
        parts     == {pathParts[i] : i \in DOMAIN pathParts}
    IN  [UpdateExpression |->
            <<[path  |-> [i \in DOMAIN pathParts |-> "#" \o pathParts[i]],
               value |-> ":data"]>>,
         ExpressionAttributeNames |->
            [tok \in {"#" \o p : p \in parts} |->
                CHOOSE p \in parts : "#" \o p = tok],
         ExpressionAttributeValues |->
            (":data" :> [M |-> convertToMapAttribute(data)])]

updateMetadataCommand(userId, assetId, path, data) ==
    LET c == createUpdateCommand(path, data)
    IN  [cmd |-> "UpdateItem",
         Key |-> <<userId, assetId>>,
         UpdateExpression          |-> c.UpdateExpression,
         ExpressionAttributeNames  |-> c.ExpressionAttributeNames,
         ExpressionAttributeValues |-> c.ExpressionAttributeValues]

\* faulty variant: the update replaces the whole progress map
updateProgressCommandWholeMap(userId, assetId, stage, value, t) ==
    [cmd |-> "UpdateItem",
     Key |-> <<userId, assetId>>,
     UpdateExpression |-> <<[path |-> <<"progress">>, value |-> ":value"]>>,
     ExpressionAttributeNames  |-> NoNames,
     ExpressionAttributeValues |->
        (":value" :> [M |-> MapPut(NewItem(userId, assetId, t, t).progress.M,
                                   stage, [BOOL |-> value])])]

\* faulty variant: the time of the update is written to createdAt
updateProgressCommandStampsCreatedAt(userId, assetId, stage, value, t) ==
    [cmd |-> "UpdateItem",
     Key |-> <<userId, assetId>>,
     UpdateExpression |->
        <<[path |-> <<"progress", "#stage">>, value |-> ":value"],
          [path |-> <<"createdAt">>, value |-> ":time"]>>,
     ExpressionAttributeNames  |-> ("#stage" :> stage),
     ExpressionAttributeValues |->
        (":value" :> [BOOL |-> value]) @@ (":time" :> [S |-> toISOString(t)])]

\* faulty variant: the update latches the flag, whatever value says
updateProgressCommandAlwaysTrue(userId, assetId, stage, value, t) ==
    [cmd |-> "UpdateItem",
     Key |-> <<userId, assetId>>,
     UpdateExpression |->
        <<[path |-> <<"progress", "#stage">>, value |-> ":value"],
          [path |-> <<"progress", "updatedAt">>, value |-> ":time"]>>,
     ExpressionAttributeNames  |-> ("#stage" :> stage),
     ExpressionAttributeValues |->
        (":value" :> [BOOL |-> TRUE]) @@ (":time" :> [S |-> toISOString(t)])]

updateProgressCommand(userId, assetId, stage, value, t) ==
    [cmd |-> "UpdateItem",
     Key |-> <<userId, assetId>>,
     UpdateExpression |->
        <<[path |-> <<"progress", "#stage">>, value |-> ":value"],
          [path |-> <<"progress", "updatedAt">>, value |-> ":time"]>>,
     ExpressionAttributeNames  |-> ("#stage" :> stage),
     ExpressionAttributeValues |->
        (":value" :> [BOOL |-> value]) @@ (":time" :> [S |-> toISOString(t)])]

\* faulty variant: hasCriticalFailure is written as a top-level attribute
markCriticalFailureCommandTopLevel(userId, assetId, value, t) ==
    [cmd |-> "UpdateItem",
     Key |-> <<userId, assetId>>,
     UpdateExpression |->
        <<[path |-> <<"hasCriticalFailure">>, value |-> ":value"],
          [path |-> <<"updatedAt">>, value |-> ":time"]>>,
     ExpressionAttributeNames  |-> NoNames,
     ExpressionAttributeValues |->
        (":value" :> [BOOL |-> value]) @@ (":time" :> [S |-> toISOString(t)])]

\* faulty variant: the update does not refresh progress.updatedAt
markCriticalFailureCommandNoTime(userId, assetId, value, t) ==
    [cmd |-> "UpdateItem",
     Key |-> <<userId, assetId>>,
     UpdateExpression |->
        <<[path |-> <<"progress", "hasCriticalFailure">>, value |-> ":value"]>>,
     ExpressionAttributeNames  |-> NoNames,
     ExpressionAttributeValues |-> (":value" :> [BOOL |-> value])]

markCriticalFailureCommand(userId, assetId, value, t) ==
    [cmd |-> "UpdateItem",
     Key |-> <<userId, assetId>>,
     UpdateExpression |->
        <<[path |-> <<"progress", "hasCriticalFailure">>, value |-> ":value"],
          [path |-> <<"progress", "updatedAt">>, value |-> ":time"]>>,
     ExpressionAttributeNames  |-> NoNames,
     ExpressionAttributeValues |->
        (":value" :> [BOOL |-> value]) @@ (":time" :> [S |-> toISOString(t)])]

\* what an operation makes of the answer to its command
Outcome(out) ==
    IF out.fault = "none" THEN [returned |-> out.status = 200]
    ELSE [thrown |-> out.fault]

(* -------------------------------- state -------------------------------- *)
VARIABLES
    db,      \* the table
    now,     \* the wall clock
    pc,      \* per caller: "idle", or "await" while its command is in flight
    call,    \* per caller: the operation it is running, with its arguments
    req,     \* per caller: the command in flight
    calls,   \* number of invocations so far
    sent,    \* per caller: commands its running operation has passed to send
    last     \* the operation that ended last: which one, on which record
             \* (and whether for a category UPDATE_PATHS does not have),
             \* whether the record existed and had hasCriticalFailure set
             \* just before, how many commands it passed to send, and what
             \* it returned or threw

vars == <<db, now, pc, call, req, calls, sent, last>>

Ended(theCall, n, outcome) ==
    LET key == <<theCall.userId, theCall.assetId>>
    IN  [op      |-> theCall.op,
         key     |-> key,
         unknown |-> /\ theCall.op = "updateMetadata"
                     /\ theCall.path \notin DOMAIN UPDATE_PATHS,
         existed |-> key \in DOMAIN db,
         alarm   |-> /\ key \in DOMAIN db
                     /\ GetPath(db[key], <<"progress", "hasCriticalFailure">>)
                           = [BOOL |-> TRUE],
         sent    |-> n,
         outcome |-> outcome]

NoCall   == [op |-> "none"]
NoReq    == [cmd |-> "none"]

Init ==
    /\ db = [k \in {} |-> KeyItem(<<"", "">>)]
    /\ now = 0
    /\ pc = [c \in Callers |-> "idle"]
    /\ call = [c \in Callers |-> NoCall]
    /\ req = [c \in Callers |-> NoReq]
    /\ calls = 0
    /\ sent = [c \in Callers |-> 0]
    /\ last = [op |-> "none"]

Tick ==
    /\ now < MaxClock
    /\ now' = now + 1
    /\ UNCHANGED <<db, pc, call, req, calls, sent, last>>

\* a caller invokes an operation, whose command goes out
Invoke(c, theCall, theCommand) ==
    /\ pc[c] = "idle"
    /\ calls < MaxCalls
    /\ calls' = calls + 1
    /\ pc' = [pc EXCEPT ![c] = "await"]
    /\ call' = [call EXCEPT ![c] = theCall]
    /\ req' = [req EXCEPT ![c] = theCommand]
    /\ sent' = [sent EXCEPT ![c] = @ + 1]
    /\ UNCHANGED <<db, last>>

\* a caller invokes an operation that throws before it sends anything
InvokeThrows(c, theCall, error) ==
    /\ pc[c] = "idle"
    /\ calls < MaxCalls
    /\ calls' = calls + 1
    /\ last' = Ended(theCall, sent[c], [thrown |-> error])
    /\ UNCHANGED <<db, now, pc, call, req, sent>>

InitializeRecord(c, userId, assetId) ==
    \E t2 \in now .. MaxClock :
        /\ Invoke(c, [op |-> "InitializeRecord", userId |-> userId,
                      assetId |-> assetId],
                  InitializeRecordCommand(userId, assetId, now, t2))
        /\ now' = t2

updateMetadata(c, userId, assetId, path, data) ==
    \/ /\ createUpdateCommandThrows(path, data)
       /\ InvokeThrows(c, [op |-> "updateMetadata", userId |-> userId,
                           assetId |-> assetId, path |-> path],
                       "TypeError")
    \/ /\ ~createUpdateCommandThrows(path, data)
       /\ Invoke(c, [op |-> "updateMetadata", userId |-> userId,
                     assetId |-> assetId, path |-> path, data |-> data],
                 updateMetadataCommand(userId, assetId, path, data))
       /\ UNCHANGED now

updateProgress(c, userId, assetId, stage, value) ==
    /\ Invoke(c, [op |-> "updateProgress", userId |-> userId,
                  assetId |-> assetId, stage |-> stage, value |-> value,
                  time |-> now],
              updateProgressCommand(userId, assetId, stage, value, now))
    /\ UNCHANGED now

markCriticalFailure(c, userId, assetId, value) ==
    /\ Invoke(c, [op |-> "markCriticalFailure", userId |-> userId,
                  assetId |-> assetId, value |-> value, time |-> now],
              markCriticalFailureCommand(userId, assetId, value, now))
    /\ UNCHANGED now

\* the table handles the command of caller c and the operation returns
Respond(c) ==
    /\ pc[c] = "await"
    /\ LET out == Send(db, req[c])
       IN  /\ db' = out.db
           /\ last' = Ended(call[c], sent[c], Outcome(out))
    /\ pc' = [pc EXCEPT ![c] = "idle"]
    /\ req' = [req EXCEPT ![c] = NoReq]
    /\ call' = [call EXCEPT ![c] = NoCall]
    /\ sent' = [sent EXCEPT ![c] = 0]
    /\ UNCHANGED <<now, calls>>

\* faulty variant: the first hard fault is answered by sending the command
\* again
HardFaultRetries(c) ==
    /\ pc[c] = "await"
    /\ IF sent[c] < 2
         THEN /\ sent' = [sent EXCEPT ![c] = @ + 1]
              /\ UNCHANGED <<db, now, pc, call, req, calls, last>>
         ELSE /\ last' = Ended(call[c], sent[c], [thrown |-> "NetworkingError"])
              /\ pc' = [pc EXCEPT ![c] = "idle"]
              /\ req' = [req EXCEPT ![c] = NoReq]
              /\ call' = [call EXCEPT ![c] = NoCall]
              /\ sent' = [sent EXCEPT ![c] = 0]
              /\ UNCHANGED <<db, now, calls>>

\* the client fails to reach the table: send rejects, the operation throws
HardFault(c) ==
    /\ pc[c] = "await"
    /\ last' = Ended(call[c], sent[c], [thrown |-> "NetworkingError"])
    /\ pc' = [pc EXCEPT ![c] = "idle"]
    /\ req' = [req EXCEPT ![c] = NoReq]
    /\ call' = [call EXCEPT ![c] = NoCall]
    /\ sent' = [sent EXCEPT ![c] = 0]
    /\ UNCHANGED <<db, now, calls>>

Next ==
    \/ Tick
    \/ \E c \in Callers, u \in Users, a \in Assets :
          InitializeRecord(c, u, a)
    \/ \E c \in Callers, u \in Users, a \in Assets,
          path \in MetadataPath \cup UnknownPaths, data \in DataInputs :
          updateMetadata(c, u, a, path, data)
    \/ \E c \in Callers, u \in Users, a \in Assets,
          stage \in ProcessingStage \cup UnknownStages, value \in BOOLEAN :
          updateProgress(c, u, a, stage, value)
    \/ \E c \in Callers, u \in Users, a \in Assets, value \in BOOLEAN :
          markCriticalFailure(c, u, a, value)
    \/ \E c \in Callers : Respond(c)
    \/ \E c \in Callers : HardFault(c)

Spec == Init /\ [][Next]_vars

\* one caller that initializes a record and hands updateMetadata, for one
\* category, every value of JsonInputs as data
EncoderNext ==
    \/ InitializeRecord("c1", "u1", "a1")
    \/ \E data \in JsonInputs :
          updateMetadata("c1", "u1", "a1", METADATA_TECHNICAL, data)
    \/ Respond("c1")

EncoderSpec == Init /\ [][EncoderNext]_vars

\* pairs of which two share only the userId and two only the assetId
PairKeys == {<<"u1", "a1">>, <<"u1", "a2">>, <<"u2", "a1">>}

\* the callers run the four operations on the pairs of PairKeys
PairsNext ==
    \/ Tick
    \/ \E c \in Callers, k \in PairKeys : InitializeRecord(c, k[1], k[2])
    \/ \E c \in Callers, k \in PairKeys, data \in {DataTechnical, JNull} :
          updateMetadata(c, k[1], k[2], METADATA_TECHNICAL, data)
    \/ \E c \in Callers, k \in PairKeys, value \in BOOLEAN :
          updateProgress(c, k[1], k[2], "upload", value)
    \/ \E c \in Callers, k \in PairKeys :
          markCriticalFailure(c, k[1], k[2], TRUE)
    \/ \E c \in Callers : Respond(c)
    \/ \E c \in Callers : HardFault(c)

PairsSpec == Init /\ [][PairsNext]_vars

(* --------------------------- reading a record -------------------------- *)
LeafOf(item, category) ==
    GetPath(item,
        CASE category = VALIDATION_BASIC   -> <<"metadata", "validation", "basic">>
          [] category = VALIDATION_STREAM  -> <<"metadata", "validation", "stream">>
          [] category = METADATA_TECHNICAL -> <<"metadata", "technical">>
          [] category = METADATA_QUALITY   -> <<"metadata", "quality">>
          [] category = METADATA_CONTENT   -> <<"metadata", "content">>)

FlagOf(item, stage) == GetPath(item, <<"progress", stage>>)
AlarmOf(item)       == GetPath(item, <<"progress", "hasCriticalFailure">>)
UpdatedAtOf(item)   == GetPath(item, <<"progress", "updatedAt">>)
CreatedAtOf(item)   == GetPath(item, <<"createdAt">>)

KeyOf(theCall) == <<theCall.userId, theCall.assetId>>

\* this step, the table handles the command of caller c
Handled(c) ==
    /\ pc[c] = "await"
    /\ pc'[c] = "idle"
    /\ last'.outcome # [thrown |-> "NetworkingError"]

\* this step, the operation of caller c returns true
Succeeded(c) ==
    /\ pc[c] = "await"
    /\ pc'[c] = "idle"
    /\ last'.outcome = [returned |-> TRUE]

SameMetadata(i, j) == \A C \in MetadataPath : LeafOf(i, C) = LeafOf(j, C)
SameFlags(i, j)    == \A s \in ProcessingStage : FlagOf(i, s) = FlagOf(j, s)

\* a record that differs from a freshly initialized one
Changed(item) ==
    \/ \E C \in MetadataPath : LeafOf(item, C) # [M |-> EmptyMap]
    \/ \E s \in ProcessingStage : FlagOf(item, s) # [BOOL |-> FALSE]
    \/ AlarmOf(item) # [BOOL |-> FALSE]

(* -------------------------------- claims ------------------------------- *)

\* C1: an InitializeRecord handled for a pair that already has a record
\* leaves every field of that record as it was (createdAt, the five metadata
\* leaves, the seven stage flags, hasCriticalFailure, progress.updatedAt).
C1_InitializeKeepsExistingRecord ==
    [][\A c \in Callers :
         (Handled(c) /\ call[c].op = "InitializeRecord"
                     /\ KeyOf(call[c]) \in DOMAIN db)
         => /\ KeyOf(call[c]) \in DOMAIN db'
            /\ db'[KeyOf(call[c])] = db[KeyOf(call[c])]]_vars

\* an InitializeRecord was handled for a pair whose record had been changed
C1_Witness ==
    /\ last.op = "InitializeRecord"
    /\ last.existed
    /\ Changed(db[last.key])

\* C2: an InitializeRecord whose command reached the table returns true when
\* the pair had no record and the boolean false when it had one; the
\* conflict is never a raised exception.
C2_ConflictReturnsFalse ==
    (last.op = "InitializeRecord" /\ last.outcome # [thrown |-> "NetworkingError"])
    => last.outcome = [returned |-> ~last.existed]

\* C3: of two InitializeRecord commands in flight for one pair that has no
\* record, in either order the first handled creates the record and returns
\* true and the other does not return true, and the record is the item of
\* the first; and in every interleaving an InitializeRecord that is handled
\* returns true exactly when the pair had no record, in which case the
\* record is its item, and otherwise leaves the record of the winner.
C3_ExactlyOneCreates ==
    /\ [](\A c1, c2 \in Callers :
            (/\ c1 # c2
             /\ pc[c1] = "await" /\ call[c1].op = "InitializeRecord"
             /\ pc[c2] = "await" /\ call[c2].op = "InitializeRecord"
             /\ KeyOf(call[c1]) = KeyOf(call[c2])
             /\ KeyOf(call[c1]) \notin DOMAIN db)
            => LET o1 == Send(db, req[c1])
                   o2 == Send(o1.db, req[c2])
               IN  /\ Outcome(o1) = [returned |-> TRUE]
                   /\ Outcome(o2) # [returned |-> TRUE]
                   /\ o2.db[KeyOf(call[c1])] = req[c1].Item)
    /\ [][\A c \in Callers :
            (Handled(c) /\ call[c].op = "InitializeRecord")
            => LET k == KeyOf(call[c])
               IN  /\ k \in DOMAIN db'
                   /\ (last'.outcome = [returned |-> TRUE]) = (k \notin DOMAIN db)
                   /\ db'[k] = IF k \in DOMAIN db THEN db[k] ELSE req[c].Item]_vars

\* two InitializeRecord invocations and no other: one created the record,
\* the one that ended last found it and failed
C3_Witness ==
    /\ calls = 2
    /\ last.op = "InitializeRecord"
    /\ last.existed
    /\ last.outcome = [thrown |-> "ConditionalCheckFailedException"]

\* C4: a successful updateMetadata for category C on an existing record
\* leaves the other four metadata leaves, createdAt, every stage flag,
\* hasCriticalFailure and progress.updatedAt as they were.
C4_UpdateMetadataFrame ==
    [][\A c \in Callers :
         (Succeeded(c) /\ call[c].op = "updateMetadata"
                       /\ KeyOf(call[c]) \in DOMAIN db)
         => LET k == KeyOf(call[c])
            IN  /\ k \in DOMAIN db'
                /\ \A C \in MetadataPath \ {call[c].path} :
                      LeafOf(db'[k], C) = LeafOf(db[k], C)
                /\ CreatedAtOf(db'[k]) = CreatedAtOf(db[k])
                /\ SameFlags(db'[k], db[k])
                /\ AlarmOf(db'[k]) = AlarmOf(db[k])
                /\ UpdatedAtOf(db'[k]) = UpdatedAtOf(db[k])]_vars

\* an updateMetadata succeeded on a record in which another leaf had been
\* written before
C4_Witness ==
    /\ last.op = "updateMetadata"
    /\ last.outcome = [returned |-> TRUE]
    /\ \E C1, C2 \in MetadataPath :
          /\ C1 # C2
          /\ LeafOf(db[last.key], C1) # [M |-> EmptyMap]
          /\ LeafOf(db[last.key], C2) # [M |-> EmptyMap]

\* C5: two updateMetadata commands in flight for distinct categories of one
\* existing record both succeed in either order, and both orders end in the
\* same record, whose two leaves hold the encodings of the two data.
C5_DistinctCategoriesCommute ==
    \A c1, c2 \in Callers :
        (/\ c1 # c2
         /\ pc[c1] = "await" /\ call[c1].op = "updateMetadata"
         /\ pc[c2] = "await" /\ call[c2].op = "updateMetadata"
         /\ call[c1].path # call[c2].path
         /\ KeyOf(call[c1]) = KeyOf(call[c2])
         /\ KeyOf(call[c1]) \in DOMAIN db)
        => LET k  == KeyOf(call[c1])
               a1 == Send(db, req[c1])
               a2 == Send(a1.db, req[c2])
               b2 == Send(db, req[c2])
               b1 == Send(b2.db, req[c1])
           IN  /\ Outcome(a1) = [returned |-> TRUE]
               /\ Outcome(a2) = [returned |-> TRUE]
               /\ Outcome(b2) = [returned |-> TRUE]
               /\ Outcome(b1) = [returned |-> TRUE]
               /\ a2.db = b1.db
               /\ LeafOf(a2.db[k], call[c1].path)
                     = [M |-> convertToMapAttribute(call[c1].data)]
               /\ LeafOf(a2.db[k], call[c2].path)
                     = [M |-> convertToMapAttribute(call[c2].data)]

\* two updateMetadata commands with different data are in flight for two
\* categories of one existing record
C5_Witness ==
    \E c1, c2 \in Callers :
        /\ c1 # c2
        /\ pc[c1] = "await" /\ call[c1].op = "updateMetadata"
        /\ pc[c2] = "await" /\ call[c2].op = "updateMetadata"
        /\ call[c1].path = VALIDATION_BASIC /\ call[c2].path = VALIDATION_STREAM
        /\ call[c1].data = DataTechnical /\ call[c2].data = DataQuality
        /\ KeyOf(call[c1]) = KeyOf(call[c2])
        /\ KeyOf(call[c1]) \in DOMAIN db

\* C6 as stated: a stage flag that is true is true in every later state.
C6_StageFlagIsLatch ==
    [][\A k \in DOMAIN db, s \in ProcessingStage :
         FlagOf(db[k], s) = [BOOL |-> TRUE]
         => (k \in DOMAIN db' /\ FlagOf(db'[k], s) = [BOOL |-> TRUE])]_vars

\* C6 as amended: a stage flag that is true stops being true only in a step
\* in which an updateProgress for that stage of that record with value false
\* succeeds; no other operation clears it.
C6_OnlyUpdateProgressFalseClears ==
    [][\A k \in DOMAIN db, s \in ProcessingStage :
         (/\ FlagOf(db[k], s) = [BOOL |-> TRUE]
          /\ ~(k \in DOMAIN db' /\ FlagOf(db'[k], s) = [BOOL |-> TRUE]))
         => \E c \in Callers :
               /\ Succeeded(c)
               /\ call[c].op = "updateProgress"
               /\ KeyOf(call[c]) = k
               /\ call[c].stage = s
               /\ call[c].value = FALSE]_vars

\* a set stage flag is still set after a later markCriticalFailure
C6_Witness ==
    /\ last.op = "markCriticalFailure"
    /\ last.outcome = [returned |-> TRUE]
    /\ \E s \in ProcessingStage : FlagOf(db[last.key], s) = [BOOL |-> TRUE]

\* C7: a successful updateProgress or markCriticalFailure that follows
\* another one on the same record never leaves progress.updatedAt smaller
\* than it was.
C7_UpdatedAtNeverDecreases ==
    [][\A c \in Callers :
         (/\ Succeeded(c)
          /\ call[c].op \in {"updateProgress", "markCriticalFailure"}
          /\ KeyOf(call[c]) \in DOMAIN db
          /\ last.op \in {"updateProgress", "markCriticalFailure"}
          /\ last.key = KeyOf(call[c])
          /\ last.outcome = [returned |-> TRUE])
         => /\ KeyOf(call[c]) \in DOMAIN db'
            /\ StrLeq(UpdatedAtOf(db[KeyOf(call[c])]).S,
                      UpdatedAtOf(db'[KeyOf(call[c])]).S)]_vars

\* C8: a successful updateProgress(S, value), S one of the seven stages, on an
\* existing record sets flag S to value and progress.updatedAt to the time of
\* the command in one step, and leaves the other six flags,
\* hasCriticalFailure, the metadata leaves and createdAt as they were.
C8_UpdateProgressEffect ==
    [][\A c \in Callers :
         (Succeeded(c) /\ call[c].op = "updateProgress"
                       /\ call[c].stage \in ProcessingStage
                       /\ KeyOf(call[c]) \in DOMAIN db)
         => LET k == KeyOf(call[c])
            IN  /\ k \in DOMAIN db'
                /\ FlagOf(db'[k], call[c].stage) = [BOOL |-> call[c].value]
                /\ UpdatedAtOf(db'[k]) = [S |-> toISOString(call[c].time)]
                /\ \A s \in ProcessingStage \ {call[c].stage} :
                      FlagOf(db'[k], s) = FlagOf(db[k], s)
                /\ AlarmOf(db'[k]) = AlarmOf(db[k])
                /\ SameMetadata(db'[k], db[k])
                /\ CreatedAtOf(db'[k]) = CreatedAtOf(db[k])]_vars

\* an updateProgress succeeded on a record with a written metadata leaf, at
\* a time later than the record's creation
C8_Witness ==
    /\ last.op = "updateProgress"
    /\ last.outcome = [returned |-> TRUE]
    /\ \E C \in MetadataPath : LeafOf(db[last.key], C) # [M |-> EmptyMap]
    /\ \E s \in ProcessingStage : FlagOf(db[last.key], s) = [BOOL |-> TRUE]
    /\ UpdatedAtOf(db[last.key]) # CreatedAtOf(db[last.key])

\* C9: a successful markCriticalFailure(value) on an existing record sets
\* hasCriticalFailure to value and progress.updatedAt to the time of the
\* command, and leaves the seven stage flags, the metadata leaves and
\* createdAt as they were; and an updateProgress for one of the seven stages
\* handled on an existing record succeeds and sets the flag, whatever
\* hasCriticalFailure is.
C9_MarkCriticalFailureEffect ==
    [][\A c \in Callers :
         /\ (Succeeded(c) /\ call[c].op = "markCriticalFailure"
                          /\ KeyOf(call[c]) \in DOMAIN db)
            => LET k == KeyOf(call[c])
               IN  /\ k \in DOMAIN db'
                   /\ AlarmOf(db'[k]) = [BOOL |-> call[c].value]
                   /\ UpdatedAtOf(db'[k]) = [S |-> toISOString(call[c].time)]
                   /\ SameFlags(db'[k], db[k])
                   /\ SameMetadata(db'[k], db[k])
                   /\ CreatedAtOf(db'[k]) = CreatedAtOf(db[k])
         /\ (Handled(c) /\ call[c].op = "updateProgress"
                        /\ call[c].stage \in ProcessingStage
                        /\ KeyOf(call[c]) \in DOMAIN db)
            => /\ last'.outcome = [returned |-> TRUE]
               /\ KeyOf(call[c]) \in DOMAIN db'
               /\ FlagOf(db'[KeyOf(call[c])], call[c].stage)
                     = [BOOL |-> call[c].value]]_vars

\* hasCriticalFailure was set on a record and a later updateProgress set a
\* stage flag of it
C9_Witness ==
    /\ last.op = "updateProgress"
    /\ last.alarm
    /\ last.outcome = [returned |-> TRUE]
    /\ AlarmOf(db[last.key]) = [BOOL |-> TRUE]
    /\ \E s \in ProcessingStage : FlagOf(db[last.key], s) = [BOOL |-> TRUE]

\* C10: no command is ever in flight for an updateMetadata with a category
\* outside the five or for an updateProgress with a stage outside the seven:
\* such an invocation is rejected before anything is sent.
C10_UnknownRejectedBeforeSend ==
    \A c \in Callers :
        pc[c] = "await"
        => /\ call[c].op = "updateMetadata" => call[c].path \in MetadataPath
           /\ call[c].op = "updateProgress" => call[c].stage \in ProcessingStage


\* C11: whenever the command of any of the four operations comes back, either
\* the client raised a hard fault and the operation throws it, or the table
\* answered with success and the operation returns true, or the table
\* answered with a status other than success and the operation returns the
\* boolean false without throwing.
C11_NonSuccessReturnsFalse ==
    [][\A c \in Callers :
         (pc[c] = "await" /\ pc'[c] = "idle")
         => LET out == Send(db, req[c])
            IN  \/ last'.outcome = [thrown |-> "NetworkingError"]
                \/ out.status = 200 /\ last'.outcome = [returned |-> TRUE]
                \/ out.status # 200 /\ last'.outcome = [returned |-> FALSE]]_vars


\* C12 as stated: every invocation of any of the four operations that has
\* ended passed exactly one command to send, whatever its outcome.
C12_ExactlyOneRequest ==
    last.op # "none" => last.sent = 1

\* C12: an operation passes at most one command to send, a PutItem or an
\* UpdateItem and never a read: exactly one is out while it waits, and an
\* operation that has ended passed exactly one, with one exception, an
\* updateMetadata that threw while it built its command passed none.
C12_AtMostOneRequest ==
    /\ \A c \in Callers :
          /\ sent[c] = IF pc[c] = "await" THEN 1 ELSE 0
          /\ pc[c] = "await" => req[c].cmd \in {"PutItem", "UpdateItem"}
    /\ last.op # "none"
       => last.sent = IF last.outcome = [thrown |-> "TypeError"] THEN 0 ELSE 1

\* an operation ended in a hard fault, having sent its one command, while
\* the command of another is out
C12_Witness ==
    /\ last.op # "none"
    /\ last.outcome = [thrown |-> "NetworkingError"]
    /\ last.sent = 1
    /\ \E c \in Callers : pc[c] = "await" /\ sent[c] = 1


\* C13: the set of pairs that have a record changes only by a successful
\* InitializeRecord, which adds its own pair: no step removes a record, and
\* an updateMetadata, updateProgress or markCriticalFailure handled for a
\* pair without a record leaves the table without any item, whole or
\* partial, for that pair.
C13_OnlyInitializeCreates ==
    [][/\ DOMAIN db \subseteq DOMAIN db'
       /\ \A k \in DOMAIN db' \ DOMAIN db :
             \E c \in Callers : /\ Succeeded(c)
                                /\ call[c].op = "InitializeRecord"
                                /\ KeyOf(call[c]) = k
       /\ \A c \in Callers :
             (Handled(c) /\ call[c].op # "InitializeRecord"
                         /\ KeyOf(call[c]) \notin DOMAIN db)
             => /\ db' = db
                /\ last'.outcome # [returned |-> TRUE]]_vars

\* an update was handled for a pair that had no record, and the pair still
\* has none, while another pair has one
C13_Witness ==
    /\ last.op \in {"updateMetadata", "updateProgress", "markCriticalFailure"}
    /\ ~last.existed
    /\ last.sent = 1
    /\ last.outcome = [thrown |-> "ValidationException"]
    /\ last.key \notin DOMAIN db
    /\ DOMAIN db # {}

\* C14: createdAt of a record is the time its InitializeRecord read when it
\* built the item that created the record, and no later step changes it.
C14_CreatedAtWrittenOnce ==
    [][/\ \A k \in DOMAIN db :
             k \in DOMAIN db' /\ CreatedAtOf(db'[k]) = CreatedAtOf(db[k])
       /\ \A c \in Callers :
             (Succeeded(c) /\ call[c].op = "InitializeRecord")
             => /\ KeyOf(call[c]) \in DOMAIN db'
                /\ CreatedAtOf(db'[KeyOf(call[c])])
                      = GetPath(req[c].Item, <<"createdAt">>)]_vars

\* a record created at time 0 has since been written by an update at a
\* later time and still carries the createdAt of time 0
C14_Witness ==
    /\ last.op \in {"updateMetadata", "updateProgress", "markCriticalFailure"}
    /\ last.outcome = [returned |-> TRUE]
    /\ last.key \in DOMAIN db
    /\ now > 0
    /\ UpdatedAtOf(db[last.key]) = [S |-> toISOString(now)]
    /\ CreatedAtOf(db[last.key]) = [S |-> toISOString(0)]

\* C15: in the state right after an InitializeRecord returns true, the
\* record of its pair has the five metadata leaves present and empty, the
\* seven stage flags false and hasCriticalFailure false.
C15_FreshRecordShape ==
    [][\A c \in Callers :
         (Succeeded(c) /\ call[c].op = "InitializeRecord")
         => /\ KeyOf(call[c]) \in DOMAIN db'
            /\ LET item == db'[KeyOf(call[c])]
               IN  /\ \A C \in MetadataPath : LeafOf(item, C) = [M |-> EmptyMap]
                   /\ \A s \in ProcessingStage :
                         FlagOf(item, s) = [BOOL |-> FALSE]
                   /\ AlarmOf(item) = [BOOL |-> FALSE]]_vars

\* an InitializeRecord has just returned true and its record is in the table
C15_Witness ==
    /\ last.op = "InitializeRecord"
    /\ last.outcome = [returned |-> TRUE]
    /\ ~last.existed
    /\ last.key \in DOMAIN db
    /\ ~Changed(db[last.key])


\* C16: no updateMetadata for one of the five categories ends in a TypeError,
\* whatever JSON value is its data: building the command, which encodes the
\* data, does not throw.
C16_EncoderNeverThrows ==
    (last.op = "updateMetadata" /\ ~last.unknown)
    => last.outcome # [thrown |-> "TypeError"]


\* the tag the rules of the encoder give a value: null, undefined and "N/A"
\* a null tag; a boolean a boolean tag; a number a numeric tag with its text;
\* a structure a nested-map tag of the tags of its fields; any other value a
\* string tag with its text
RECURSIVE TagOf(_)
TagOf(v) ==
    CASE v \in {JNull, JUndef, JStr("N/A")} -> [NULL |-> TRUE]
      [] v.t = "boolean" -> [BOOL |-> v.b]
      [] v.t = "number"  -> [N |-> NumToString(v.n)]
      [] v.t \in {"object", "array"} ->
            [M |-> [key \in DOMAIN ObjectEntries(v) |->
                       TagOf(ObjectEntries(v)[key])]]
      [] OTHER -> [S |-> v.s]

\* C18: the command of an updateMetadata whose data is an object or an array
\* carries, as :data, the nested-map tag in which every field of the data,
\* at every depth, has the tag the rules give it, an empty structure
\* included as an empty nested-map tag.
C18_EncoderRules ==
    \A c \in Callers :
        (/\ pc[c] = "await" /\ call[c].op = "updateMetadata"
         /\ call[c].data.t \in {"object", "array"})
        => req[c].ExpressionAttributeValues[":data"] = TagOf(call[c].data)

\* a command is out whose data nests, two levels down, "N/A" next to a
\* negative number, and another whose data holds an empty object
C18_Witness ==
    \E c \in Callers :
        /\ pc[c] = "await" /\ call[c].op = "updateMetadata"
        /\ call[c].data \in
              {JObj([a |-> JObj([x |-> JObj([y |-> JStr("N/A"), z |-> JNum(-3)])])]),
               JObj([a |-> JNum(12), b |-> JObj(EmptyMap)])}
        /\ "M" \in DOMAIN req[c].ExpressionAttributeValues[":data"]
        /\ "a" \in DOMAIN req[c].ExpressionAttributeValues[":data"].M

\* the numerals the model writes, read back
Numerals == ("0" :> 0) @@ ("12" :> 12) @@ ("-3" :> (0 - 3))

\* the value a tagged value stands for
RECURSIVE Decode(_)
Decode(av) ==
    IF "NULL" \in DOMAIN av THEN JNull
    ELSE IF "BOOL" \in DOMAIN av THEN JBool(av.BOOL)
    ELSE IF "N" \in DOMAIN av
         THEN IF av.N \in DOMAIN Numerals THEN JNum(Numerals[av.N])
              ELSE [t |-> "number", text |-> av.N]
    ELSE IF "S" \in DOMAIN av THEN JStr(av.S)
    ELSE IF "M" \in DOMAIN av
         THEN JObj([key \in DOMAIN av.M |-> Decode(av.M[key])])
    ELSE Absent

\* v with "N/A" and undefined replaced by null, at every depth
RECURSIVE NullNormalized(_)
NullNormalized(v) ==
    IF v \in {JNull, JUndef, JStr("N/A")} THEN JNull
    ELSE IF v.t = "object"
         THEN JObj([key \in DOMAIN v.f |-> NullNormalized(v.f[key])])
    ELSE v

\* null, undefined, booleans, integers, strings, and objects of such values
RECURSIVE RoundTripValue(_)
RoundTripValue(v) ==
    \/ v.t \in {"null", "undefined", "boolean", "number", "string"}
    \/ /\ v.t = "object"
       /\ \A key \in DOMAIN v.f : RoundTripValue(v.f[key])

C17_SameFieldLastWriteWins ==
    \A c1, c2 \in Callers :
        (/\ c1 # c2
         /\ pc[c1] = "await" /\ pc[c2] = "await"
         /\ call[c1].op = call[c2].op
         /\ KeyOf(call[c1]) = KeyOf(call[c2])
         /\ KeyOf(call[c1]) \in DOMAIN db)
        => LET k     == KeyOf(call[c1])
               first == Send(db, req[c1])
               both  == Send(first.db, req[c2])
           IN  /\ (/\ call[c1].op = "updateProgress"
                   /\ call[c1].stage = call[c2].stage
                   /\ call[c1].stage \in ProcessingStage)
                  => /\ Outcome(first) = [returned |-> TRUE]
                     /\ Outcome(both) = [returned |-> TRUE]
                     /\ FlagOf(first.db[k], call[c1].stage)
                           = [BOOL |-> call[c1].value]
                     /\ FlagOf(both.db[k], call[c2].stage)
                           = [BOOL |-> call[c2].value]
               /\ (/\ call[c1].op = "updateMetadata"
                   /\ call[c1].path = call[c2].path)
                  => /\ Outcome(first) = [returned |-> TRUE]
                     /\ Outcome(both) = [returned |-> TRUE]
                     /\ LeafOf(first.db[k], call[c1].path)
                           = [M |-> convertToMapAttribute(call[c1].data)]
                     /\ LeafOf(both.db[k], call[c2].path)
                           = [M |-> convertToMapAttribute(call[c2].data)]

\* two updateProgress with different values are in flight for one stage of
\* one existing record
C17_Witness ==
    \E c1, c2 \in Callers :
        /\ c1 # c2
        /\ pc[c1] = "await" /\ call[c1].op = "updateProgress"
        /\ pc[c2] = "await" /\ call[c2].op = "updateProgress"
        /\ call[c1].stage = call[c2].stage
        /\ call[c1].stage \in ProcessingStage
        /\ call[c1].value /\ ~call[c2].value
        /\ KeyOf(call[c1]) = KeyOf(call[c2])
        /\ KeyOf(call[c1]) \in DOMAIN db


\* C20: a step in which an operation ends, by an answer of the table or by
\* a hard fault, leaves the record of every pair other than the operation's
\* own as it was, present or absent, pairs with the same userId or the same
\* assetId included; and no other step changes the table.
C20_OtherPairsUntouched ==
    [][/\ \A c \in Callers :
             (pc[c] = "await" /\ pc'[c] = "idle")
             => \A k \in (DOMAIN db \cup DOMAIN db') \ {KeyOf(call[c])} :
                   /\ k \in DOMAIN db
                   /\ k \in DOMAIN db'
                   /\ db'[k] = db[k]
       /\ (\A c \in Callers : ~(pc[c] = "await" /\ pc'[c] = "idle"))
          => db' = db]_vars

\* an InitializeRecord has just created the record of a pair, while the pair
\* that shares only its userId has a record and a command is in flight for
\* the pair that shares only its assetId
C20_Witness ==
    /\ last.op = "InitializeRecord"
    /\ last.outcome = [returned |-> TRUE]
    /\ last.key = <<"u1", "a1">>
    /\ DOMAIN db = {<<"u1", "a1">>, <<"u1", "a2">>}
    /\ ~Changed(db[<<"u1", "a2">>])
    /\ \E c \in Callers : pc[c] = "await" /\ KeyOf(call[c]) = <<"u2", "a1">>

=============================================================================
